---- MODULE Spec2Model ----
(***************************************************************************)
(* State-machine model of the MyListings panel                             *)
(* (src/components/my-listings.tsx): the component's local state, the      *)
(* requests it has in flight against the backend, and the backend's items  *)
(* table as far as the panel's two queries read and write it.              *)
(***************************************************************************)
EXTENDS Integers, Sequences, FiniteSets, Bags, TLC

VARIABLES
    user,           \* useAuth().user: the owner id, or Null
    session,        \* useAuth().session: TRUE when a session object is present
    status,         \* the status prop
    listings,       \* useState<Listing[]>: the rows shown, in order
    isLoading,      \* useState(true)
    error,          \* useState<string | null>
    effectPending,  \* a render is committed whose effect has not run yet
    inflight,       \* the bag of awaited backend requests
    backend,        \* the rows of the items table
    dialog,         \* the blocking dialog the last step showed, if any
    location,       \* argument of getLocationString
    locationString  \* result of getLocationString

panel == <<user, session, status, listings, isLoading, error, effectPending,
           inflight, backend, dialog>>
loc == <<location, locationString>>
vars == <<user, session, status, listings, isLoading, error, effectPending,
          inflight, backend, dialog, location, locationString>>

----------------------------------------------------------------------------
(* Bounds *)

\* number of backend requests that may be awaited at the same time
MaxInflight == 2

----------------------------------------------------------------------------
(* Values *)

Null == "null"
Users == {"u1", "u2"}
\* the status prop's tags; "archived" reads as "closed" does: no row of
\* AllRows has either
Statuses == {"active", "closed"}
FailedToLoad == "Failed to load listings"

\* confirm(...) answered with OK or Cancel, and alert('Failed to delete listing')
NoDialog == "none"
ConfirmAccepted == "confirm: OK"
ConfirmDeclined == "confirm: Cancel"
Alert == "alert: Failed to delete listing"

\* The items table at the start: two active rows of u1 with distinct creation
\* times.  u2 owns no row and no row is closed, so their fetches come back
\* empty.
AllRows ==
    { [id |-> "a", user_id |-> "u1", status |-> "active", created_at |-> 3],
      [id |-> "b", user_id |-> "u1", status |-> "active", created_at |-> 1] }


----------------------------------------------------------------------------
(* The backend's two queries *)

\* .order('created_at', { ascending: false })
RECURSIVE OrderDesc(_)
OrderDesc(S) ==
    IF S = {} THEN <<>>
    ELSE LET m == CHOOSE r \in S : \A q \in S : q.created_at <= r.created_at
         IN  <<m>> \o OrderDesc(S \ {m})

\* select ... .eq('user_id', user.id).eq('status', status).order(...)
SelectListings(rows, uid, st) ==
    OrderDesc({r \in rows : r.user_id = uid /\ r.status = st})

\* DeleteListing without .eq('user_id', user?.id)
DeleteListingByIdOnly(rows, listingId, uid) ==
    {r \in rows : r.id # listingId}

\* delete().eq('id', listingId).eq('user_id', user?.id): the rows left
DeleteListing(rows, listingId, uid) ==
    {r \in rows : ~(r.id = listingId /\ r.user_id = uid)}

----------------------------------------------------------------------------
(* Helpers *)

\* listings.filter(l => l.id !== listingId)
RECURSIVE FilterOut(_, _)
FilterOut(ls, listingId) ==
    IF ls = <<>> THEN <<>>
    ELSE IF Head(ls).id = listingId THEN FilterOut(Tail(ls), listingId)
         ELSE <<Head(ls)>> \o FilterOut(Tail(ls), listingId)

\* the branch the component renders
Branch ==
    IF isLoading THEN "loading"
    ELSE IF error # Null THEN "error"
    ELSE IF Len(listings) = 0 THEN "empty"
    ELSE "list"

\* a further request may be awaited
CanIssue == BagCardinality(inflight) < MaxInflight
Requests == BagToSet(inflight)
One(r) == SetToBag({r})

\* the awaited select of fetchMyListings, with the identity and status its
\* closure holds
FetchReq(uid, st) ==
    [kind |-> "fetch", phase |-> "sent", user_id |-> uid, status |-> st]

\* the select once the backend has run it: the rows it yields
FetchRun(rows) ==
    [kind |-> "fetch", phase |-> "run", data |-> rows]

\* the awaited delete of handleDelete, with the user and the listings its
\* closure holds
DeleteReq(listingId, uid, shown) ==
    [kind |-> "delete", phase |-> "sent", id |-> listingId, user_id |-> uid,
     captured |-> shown]

\* the delete once the backend has run it
DeleteRun(listingId, shown) ==
    [kind |-> "delete", phase |-> "run", id |-> listingId, captured |-> shown]

----------------------------------------------------------------------------
(* The effect: fetchMyListings up to its await *)

FetchMyListings(u, s, st) ==
    IF u = Null \/ ~s
    THEN /\ isLoading' = FALSE
         /\ UNCHANGED <<listings, error, inflight>>
    ELSE /\ CanIssue
         /\ isLoading' = TRUE
         /\ error' = Null
         /\ inflight' = inflight (+) One(FetchReq(u, st))
         /\ UNCHANGED listings

\* The effect of the committed render runs, after the first render and after
\* every render in which user, session or status changed, with the identity
\* and the props of that render.
RunEffect ==
    /\ effectPending
    /\ effectPending' = FALSE
    /\ FetchMyListings(user, session, status)
    /\ dialog' = NoDialog
    /\ UNCHANGED <<user, session, status, backend, loc>>

\* A render with a changed dependency is committed: the new props and identity
\* with the state as it is; its effect is still to run.  The dependencies are
\* compared as objects: a new user or session object (a token refresh) is a
\* change even when it holds the same user id.  The effect of the render
\* before has run by then.
DepsChange(u, s, st) ==
    /\ ~effectPending
    /\ \/ <<u, s, st>> # <<user, session, status>>
       \/ u # Null
       \/ s
    /\ user' = u
    /\ session' = s
    /\ status' = st
    /\ effectPending' = TRUE
    /\ dialog' = NoDialog
    /\ UNCHANGED <<listings, isLoading, error, inflight, backend, loc>>

----------------------------------------------------------------------------
(* The backend runs a request's query *)

\* the select query runs on the rows of that moment
RunSelect(r) ==
    /\ r \in Requests
    /\ r.kind = "fetch"
    /\ r.phase = "sent"
    /\ inflight' = (inflight (-) One(r)) (+)
          One(FetchRun(SelectListings(backend, r.user_id, r.status)))
    /\ dialog' = NoDialog
    /\ UNCHANGED <<user, session, status, listings, isLoading, error, effectPending,
                   backend, loc>>

\* the delete query runs
RunDelete(r) ==
    /\ r \in Requests
    /\ r.kind = "delete"
    /\ r.phase = "sent"
    /\ inflight' = (inflight (-) One(r)) (+) One(DeleteRun(r.id, r.captured))
    /\ backend' = DeleteListing(backend, r.id, r.user_id)
    /\ dialog' = NoDialog
    /\ UNCHANGED <<user, session, status, listings, isLoading, error, effectPending,
                   loc>>

\* What the await can yield.  A query that ran yields its result, or the call
\* throws (the answer is lost); a query that did not run yields an error, or
\* the call throws.  A select that ran may also yield { data: null }.
FetchOutcomes(r) == IF r.phase = "run" THEN {"data", "nodata", "throw"}
                    ELSE {"error", "throw"}
DeleteOutcomes(r) == IF r.phase = "run" THEN {"ok", "throw"}
                     ELSE {"error", "throw"}

----------------------------------------------------------------------------
(* fetchMyListings after its await *)

\* CompleteFetch whose catch block does not set the error
CompleteFetchCatchSilent(r, outcome) ==
    /\ r \in Requests
    /\ r.kind = "fetch"
    /\ outcome \in FetchOutcomes(r)
    /\ CASE outcome = "data" ->
              /\ listings' = r.data
              /\ UNCHANGED error
         [] outcome = "nodata" ->
              /\ listings' = <<>>
              /\ UNCHANGED error
         [] outcome = "error" ->
              /\ error' = FailedToLoad
              /\ UNCHANGED listings
         [] OTHER ->
              UNCHANGED <<listings, error>>
    /\ isLoading' = FALSE
    /\ inflight' = inflight (-) One(r)
    /\ dialog' = NoDialog
    /\ UNCHANGED <<user, session, status, effectPending, backend, loc>>

\* CompleteFetch with setIsLoading(false) as the last statement of the try
\* block instead of a finally block: the early return on fetchError skips it
CompleteFetchNoFinally(r, outcome) ==
    /\ r \in Requests
    /\ r.kind = "fetch"
    /\ outcome \in FetchOutcomes(r)
    /\ CASE outcome = "data" ->
              /\ listings' = r.data
              /\ isLoading' = FALSE
              /\ UNCHANGED error
         [] outcome = "nodata" ->
              /\ listings' = <<>>
              /\ isLoading' = FALSE
              /\ UNCHANGED error
         [] OTHER ->
              /\ error' = FailedToLoad
              /\ UNCHANGED <<listings, isLoading>>
    /\ inflight' = inflight (-) One(r)
    /\ dialog' = NoDialog
    /\ UNCHANGED <<user, session, status, effectPending, backend, loc>>

CompleteFetch(r, outcome) ==
    /\ r \in Requests
    /\ r.kind = "fetch"
    /\ outcome \in FetchOutcomes(r)
    /\ CASE outcome = "data" ->
              /\ listings' = r.data
              /\ UNCHANGED error
         [] outcome = "nodata" ->
              /\ listings' = <<>>
              /\ UNCHANGED error
         [] OTHER ->
              /\ error' = FailedToLoad
              /\ UNCHANGED listings
    /\ isLoading' = FALSE
    /\ inflight' = inflight (-) One(r)
    /\ dialog' = NoDialog
    /\ UNCHANGED <<user, session, status, effectPending, backend, loc>>

----------------------------------------------------------------------------
(* handleDelete *)

\* HandleDelete that sends the request whatever confirm() returns
HandleDeleteIgnoresConfirm(listingId, accept) ==
    /\ Branch = "list"
    /\ \E i \in 1..Len(listings) : listings[i].id = listingId
    /\ CanIssue
    /\ inflight' = inflight (+) One(DeleteReq(listingId, user, listings))
    /\ dialog' = IF accept THEN ConfirmAccepted ELSE ConfirmDeclined
    /\ UNCHANGED <<user, session, status, listings, isLoading, error, effectPending,
                   backend, loc>>

\* the click on a row's delete button, up to the await
HandleDelete(listingId, accept) ==
    /\ Branch = "list"
    /\ \E i \in 1..Len(listings) : listings[i].id = listingId
    /\ IF accept
       THEN /\ CanIssue
            /\ inflight' = inflight (+) One(DeleteReq(listingId, user, listings))
            /\ dialog' = ConfirmAccepted
       ELSE /\ UNCHANGED inflight
            /\ dialog' = ConfirmDeclined
    /\ UNCHANGED <<user, session, status, listings, isLoading, error, effectPending,
                   backend, loc>>

\* CompleteDelete without the return after the alert of the deleteError branch
CompleteDeleteFallsThrough(r, outcome) ==
    /\ r \in Requests
    /\ r.kind = "delete"
    /\ outcome \in DeleteOutcomes(r)
    /\ IF outcome = "throw"
       THEN /\ dialog' = Alert
            /\ UNCHANGED listings
       ELSE /\ listings' = FilterOut(r.captured, r.id)
            /\ dialog' = IF outcome = "ok" THEN NoDialog ELSE Alert
    /\ inflight' = inflight (-) One(r)
    /\ UNCHANGED <<user, session, status, isLoading, error, effectPending, backend,
                   loc>>

\* handleDelete after its await
CompleteDelete(r, outcome) ==
    /\ r \in Requests
    /\ r.kind = "delete"
    /\ outcome \in DeleteOutcomes(r)
    /\ IF outcome = "ok"
       THEN /\ listings' = FilterOut(r.captured, r.id)
            /\ dialog' = NoDialog
       ELSE /\ dialog' = Alert
            /\ UNCHANGED listings
    /\ inflight' = inflight (-) One(r)
    /\ UNCHANGED <<user, session, status, isLoading, error, effectPending, backend,
                   loc>>

----------------------------------------------------------------------------
(* The retry control of the error branch: window.location.reload() *)

\* the page is loaded anew: the component starts over and the answers of the
\* requests still awaited are never handled
Reload ==
    /\ Branch = "error"
    /\ listings' = <<>>
    /\ isLoading' = TRUE
    /\ error' = Null
    /\ effectPending' = TRUE
    /\ inflight' = EmptyBag
    /\ dialog' = NoDialog
    /\ UNCHANGED <<user, session, status, backend, loc>>

----------------------------------------------------------------------------
(* getLocationString *)

\* strings are sequences of characters
Undefined == [defined |-> FALSE]
Some(v) == [defined |-> TRUE, value |-> v]
NullLocation == [isNull |-> TRUE]
UnknownLocation ==
    <<"U","n","k","n","o","w","n"," ","l","o","c","a","t","i","o","n">>
Separator == <<",", " ">>

\* a field is free text: undefined, empty, or any text, the text
\* 'Unknown location' among them
FieldValues ==
    {Undefined, Some(<<>>), Some(<<"K">>), Some(<<"B", "3">>),
     Some(UnknownLocation)}
Locations ==
    {NullLocation} \cup
    [address : FieldValues, district : FieldValues, province : FieldValues]

\* if (location.f): the field is defined and not the empty string
Truthy(f) == f.defined /\ Len(f.value) > 0

\* parts.join(', ')
RECURSIVE Join(_)
Join(parts) ==
    IF Len(parts) = 0 THEN <<>>
    ELSE IF Len(parts) = 1 THEN parts[1]
    ELSE parts[1] \o Separator \o Join(Tail(parts))

\* getLocationString pushing the district before the address
getLocationStringDistrictFirst(l) ==
    IF l = NullLocation THEN UnknownLocation
    ELSE LET p1 == IF Truthy(l.district) THEN <<l.district.value>> ELSE <<>>
             p2 == IF Truthy(l.address) THEN Append(p1, l.address.value) ELSE p1
             parts == IF Truthy(l.province) THEN Append(p2, l.province.value) ELSE p2
         IN  IF Len(parts) > 0 THEN Join(parts) ELSE UnknownLocation

getLocationString(l) ==
    IF l = NullLocation THEN UnknownLocation
    ELSE LET p1 == IF Truthy(l.address) THEN <<l.address.value>> ELSE <<>>
             p2 == IF Truthy(l.district) THEN Append(p1, l.district.value) ELSE p1
             parts == IF Truthy(l.province) THEN Append(p2, l.province.value) ELSE p2
         IN  IF Len(parts) > 0 THEN Join(parts) ELSE UnknownLocation

\* a card renders: getLocationString(listing.location)
RenderLocation ==
    /\ locationString = <<>>
    /\ locationString' = getLocationString(location)
    /\ UNCHANGED <<location, panel>>

----------------------------------------------------------------------------
(* Specifications *)

PanelInit ==
    /\ user \in Users \cup {Null}
    /\ session \in BOOLEAN
    /\ status \in Statuses
    /\ listings = <<>>
    /\ isLoading = TRUE
    /\ error = Null
    /\ effectPending = TRUE
    /\ inflight = EmptyBag
    /\ backend = AllRows
    /\ dialog = NoDialog

Init ==
    /\ PanelInit
    /\ location = NullLocation
    /\ locationString = <<>>

Next ==
    \/ RunEffect
    \/ \E u \in Users \cup {Null}, s \in BOOLEAN, st \in Statuses :
          DepsChange(u, s, st)
    \/ \E r \in Requests : RunSelect(r)
    \/ \E r \in Requests : RunDelete(r)
    \/ \E r \in Requests, o \in {"data", "nodata", "error", "throw"} :
          CompleteFetch(r, o)
    \/ \E id \in {r.id : r \in AllRows}, accept \in BOOLEAN :
          HandleDelete(id, accept)
    \/ \E r \in Requests, o \in {"ok", "error", "throw"} : CompleteDelete(r, o)
    \/ Reload

Spec == Init /\ [][Next]_vars

\* every request is eventually answered and every answer eventually handled;
\* the effect of a committed render eventually runs
Completes ==
    \E r \in Requests :
       \/ \E o \in {"data", "nodata", "error", "throw"} : CompleteFetch(r, o)
       \/ \E o \in {"ok", "error", "throw"} : CompleteDelete(r, o)

FairSpec ==
    /\ Init
    /\ [][Next]_vars
    /\ WF_vars(RunEffect)
    /\ WF_vars(Completes)

\* getLocationString over every location of the bounded domain
LocInit ==
    /\ PanelInit
    /\ user = Null /\ session = FALSE /\ status = "active"
    /\ location \in Locations
    /\ locationString = <<>>

LocNext == RenderLocation

LocSpec == LocInit /\ [][LocNext]_vars

----------------------------------------------------------------------------
(* Properties *)

\* the list is rendered
ListRendered == ~isLoading /\ error = Null
\* newest first
Descending(ls) ==
    \A i, j \in 1..Len(ls) : i < j => ls[i].created_at >= ls[j].created_at
\* no authenticated identity
NoIdentity == user = Null \/ ~session
\* the three outcomes of a fetch
Populated == ~isLoading /\ error = Null /\ Len(listings) > 0
Empty == ~isLoading /\ error = Null /\ Len(listings) = 0
Failure == ~isLoading /\ error # Null

\* C1: whenever the list is rendered, every listing shown is a backend row
\* owned by the current user whose status is the requested status, and the
\* list is in descending creation-time order.
C1_DisplayedMatchesRequest ==
    ListRendered =>
        /\ \A i \in 1..Len(listings) :
              /\ listings[i] \in backend
              /\ listings[i].user_id = user
              /\ listings[i].status = status
        /\ Descending(listings)

\* C2: when a delete completes successfully, the list afterwards is the list
\* just before with exactly the deleted listing removed, the rest in order.
C2_DeleteRemovesExactlyThatRow ==
    [][\A r \in Requests :
          CompleteDelete(r, "ok") => listings' = FilterOut(listings, r.id)]_vars

\* C3: when a delete fails (an error is returned or the call throws), the
\* alert is shown and listings, isLoading and error are as before.
C3_FailedDeleteLeavesState ==
    [][\A r \in Requests, o \in {"error", "throw"} :
          CompleteDelete(r, o) =>
             /\ dialog' = Alert
             /\ UNCHANGED <<listings, isLoading, error>>]_vars

\* C3 witness: the alert is up and the rows, the one whose delete failed
\* among them, are still shown.
C3_Witness ==
    /\ dialog = Alert
    /\ Branch = "list"
    /\ Len(listings) = 2

\* C4: with no authenticated identity and no request in flight, the panel is
\* non-loading with an empty list and no error.
C4_NoIdentityIsEmpty ==
    (~effectPending /\ NoIdentity /\ inflight = EmptyBag) =>
        (~isLoading /\ listings = <<>> /\ error = Null)

\* C5: when a fetch completes successfully and no other request is in
\* flight, the panel is non-loading with no error and shows exactly the rows
\* returned, in the backend's order; a null data shows as the empty list.
C5_SuccessfulFetchShowsRows ==
    [][\A r \in Requests, o \in {"data", "nodata"} :
          (CompleteFetch(r, o) /\ inflight' = EmptyBag) =>
             /\ ~isLoading'
             /\ error' = Null
             /\ listings' = IF o = "data" THEN r.data ELSE <<>>]_vars

\* a fetch starts in this step
FetchStarts ==
    \E u \in Users, st \in Statuses : inflight' = inflight (+) One(FetchReq(u, st))

\* C6: when a fetch completes with a query error or throws, the panel is
\* non-loading with error 'Failed to load listings' and the error branch is
\* what renders, whatever the list holds; the error stays set until the next
\* fetch starts (or the retry control loads the page anew, which starts the
\* component over).
C6_FetchFailureShowsError ==
    /\ [][\A r \in Requests, o \in {"error", "throw"} :
             CompleteFetch(r, o) =>
                /\ ~isLoading'
                /\ error' = FailedToLoad
                /\ Branch' = "error"]_vars
    /\ [][(error # Null /\ error' = Null) => (FetchStarts \/ Reload)]_vars

\* C6 witness: a fetch failed while rows were in the list: the error branch
\* renders, not the populated one.
C6_Witness ==
    /\ Branch = "error"
    /\ error = FailedToLoad
    /\ Len(listings) > 0

\* C7: every delete the panel issues is filtered by the listing id and by the
\* id of the user current at the click, so a step of the backend removes at
\* most one row, and only a row with the id and the owner of an awaited
\* delete: never a row of another owner.
C7_DeleteScopedToOwner ==
    /\ [][\A id \in {row.id : row \in AllRows} :
             HandleDelete(id, TRUE) =>
                \E r \in BagToSet(inflight') :
                   /\ inflight' = inflight (+) One(r)
                   /\ r.kind = "delete" /\ r.id = id /\ r.user_id = user]_vars
    /\ [][/\ backend' \subseteq backend
          /\ Cardinality(backend \ backend') <= 1
          /\ \A row \in backend \ backend' :
                \E r \in Requests :
                   /\ r.kind = "delete" /\ r.phase = "sent"
                   /\ r.id = row.id /\ r.user_id = row.user_id]_vars

\* C7 witness: a user has sent the delete of a row shown to them that
\* another user owns.
C7_Witness ==
    \E r \in Requests, row \in backend :
       /\ r.kind = "delete" /\ r.phase = "sent"
       /\ row.id = r.id
       /\ r.user_id \in Users /\ row.user_id # r.user_id

\* the values of the present fields of a location, in the order address,
\* district, province
PresentFields(l) ==
    IF l = NullLocation THEN <<>>
    ELSE LET fs == SelectSeq(<<l.address, l.district, l.province>>, Truthy)
         IN  [i \in 1..Len(fs) |-> fs[i].value]

\* C8 as stated: getLocationString gives the present fields among address,
\* district, province joined by ', ' in that order, and 'Unknown location'
\* exactly when the location is null or none of the three is present.
C8_UnknownExactlyWhenAbsent ==
    locationString # <<>> =>
        LET p == PresentFields(location)
        IN  /\ Len(p) = 1 => locationString = p[1]
            /\ Len(p) = 2 => locationString = p[1] \o <<",", " ">> \o p[2]
            /\ Len(p) = 3 => locationString =
                  p[1] \o <<",", " ">> \o p[2] \o <<",", " ">> \o p[3]
            /\ Len(p) = 0 <=> locationString = UnknownLocation

\* C8 as amended: getLocationString gives the present fields among address,
\* district, province joined by ', ' in that order, and 'Unknown location'
\* whenever the location is null or none of the three is present; it gives
\* 'Unknown location' in no other case than that one or a single present
\* field whose own text is 'Unknown location'.
C8_LocationString ==
    locationString # <<>> =>
        LET p == PresentFields(location)
        IN  /\ Len(p) = 1 => locationString = p[1]
            /\ Len(p) = 2 => locationString = p[1] \o <<",", " ">> \o p[2]
            /\ Len(p) = 3 => locationString =
                  p[1] \o <<",", " ">> \o p[2] \o <<",", " ">> \o p[3]
            /\ Len(p) = 0 => locationString = UnknownLocation
            /\ locationString = UnknownLocation =>
                  \/ Len(p) = 0
                  \/ Len(p) = 1 /\ p[1] = UnknownLocation

\* C8 witness: a location with a district and a province and no address has
\* been formatted.
C8_Witness ==
    /\ locationString # <<>>
    /\ location # NullLocation
    /\ ~Truthy(location.address)
    /\ Truthy(location.district)
    /\ Truthy(location.province)

\* C9: the panel always leaves the loading state again, and once no request
\* is in flight it is in exactly one of the outcomes populated, empty and
\* failure.
C9_LoadingEnds ==
    /\ isLoading ~> ~isLoading
    /\ [](~effectPending /\ inflight = EmptyBag =>
            /\ ~isLoading
            /\ Populated \/ Empty \/ Failure
            /\ ~(Populated /\ Empty) /\ ~(Populated /\ Failure)
            /\ ~(Empty /\ Failure))

\* C9 witness: a fetch for an authenticated user has ended and nothing is in
\* flight.
C9_Witness ==
    /\ ~effectPending
    /\ ~NoIdentity
    /\ inflight = EmptyBag
    /\ Populated

\* a delete request is sent in this step
DeleteSent ==
    \E r \in BagToSet(inflight') :
       /\ r.kind = "delete" /\ r.phase = "sent"
       /\ inflight' = inflight (+) One(r)

\* C10: a delete request is sent only in a step whose confirmation was
\* accepted; when it is declined no request is sent, no alert is shown, and
\* listings, isLoading, error and the backend rows are unchanged.
C10_DeclineChangesNothing ==
    /\ [][DeleteSent => dialog' = ConfirmAccepted]_vars
    /\ [][\A id \in {row.id : row \in AllRows} :
             HandleDelete(id, FALSE) =>
                /\ dialog' = ConfirmDeclined
                /\ UNCHANGED <<inflight, listings, isLoading, error, backend>>]_vars

\* C10 witness: the confirmation was declined with a free slot for a request.
C10_Witness ==
    /\ dialog = ConfirmDeclined
    /\ CanIssue
    /\ Branch = "list"

====
